---------------------------- MODULE Spec2Model ----------------------------
(***************************************************************************)
(* A state-machine model of the CHIP-8 interpreter: the instruction        *)
(* decoder (parser.rs), the machine state (state.rs), the display plane    *)
(* (display.rs), the frame-paced run loop with its step function           *)
(* (interpreter.rs), and the step function of the engine that matches on   *)
(* the opcode's nibbles itself (chip_core.rs).                             *)
(*                                                                         *)
(* Representation.  ram ([u8; 4096]) is kept as the function of the cells  *)
(* written since State::new(): a cell outside its domain holds the value   *)
(* construction gave it (the font table in 0x50..0x9F, 0 elsewhere); RamAt *)
(* reads a cell.  screen ([[u8; 64]; 32]) is kept the same way over        *)
(* <<row, col>>: a cell outside its domain holds 0; ScreenAt reads a cell. *)
(***************************************************************************)
EXTENDS Integers, Sequences, FiniteSets, TLC

VARIABLES
    ram,              \* State.ram, as the cells written since construction
    stack,            \* State.stack: Vec<u16>
    pc,               \* State.pc: u16
    registers,        \* State.registers: [u8; 16]
    index_register,   \* State.index_register: u16
    delay_timer,      \* State.delay_timer: u8
    sound_timer,      \* State.sound_timer: u8
    screen,           \* CLIDisplay.screen, as the cells written since clear
    phase,            \* position of the program: "constructed", "batch",
                      \* "frame_end", "exited", "panicked"
    i,                \* completed iterations of the per-frame for loop
    result,           \* what the last step returned: "Continue", "Halt",
                      \* "Err", or "Panic" when it aborted the process
    error,            \* the Error value of an Err result, else NoError
    bell,             \* the last action wrote "\x07" to stdout
    last,             \* address and opcode of the last step, else NoStep
    overflow_checks,  \* build profile: arithmetic overflow panics (debug)
                      \* or wraps (release)
    decode_in,        \* decoder on its own: the opcode handed to from_opcode
    decode_out,       \* decoder on its own: what from_opcode returned
    timer_in,         \* update_timers on its own: the value both timers
                      \* were started at
    updates,          \* update_timers on its own: the calls made so far
    image,            \* the rom: Vec<u8> handed to load_rom, << >> before
    pending_calls,    \* history: the addresses of the 2NNN instructions
                      \* executed and not yet returned from, oldest first
    drawing           \* draw on its own: the display before, the arguments
                      \* and the number of calls made with them

vars == <<ram, stack, pc, registers, index_register, delay_timer, sound_timer,
          screen, phase, i, result, error, bell, last, overflow_checks,
          decode_in, decode_out, timer_in, updates, image, pending_calls,
          drawing>>

decoder == <<decode_in, decode_out>>

timer_call == <<timer_in, updates>>

machine == <<ram, stack, registers, index_register, delay_timer, sound_timer,
             screen>>

-----------------------------------------------------------------------------
(* Constants of the program *)

SCREEN_WIDTH == 64

SCREEN_HEIGHT == 32

TOTAL_RAM_SIZE == 4096

INITIAL_PC == 512

FONT_BASE == 80

TARGET_FPS == 60

TARGET_IPS == 700

INSTRUCTIONS_PER_FRAME == TARGET_IPS \div TARGET_FPS

FONT_DATA ==
    << 240, 144, 144, 144, 240,   \* 0
        32,  96,  32,  32, 112,   \* 1
       240,  16, 240, 128, 240,   \* 2
       240,  16, 240,  16, 240,   \* 3
       144, 144, 240,  16,  16,   \* 4
       240, 128, 240,  16, 240,   \* 5
       240, 128, 240, 144, 240,   \* 6
       240,  16,  32,  64,  64,   \* 7
       240, 144, 240, 144, 240,   \* 8
       240, 144, 240,  16, 240,   \* 9
       240, 144, 240, 144, 144,   \* A
       224, 144, 224, 144, 224,   \* B
       240, 128, 128, 128, 240,   \* C
       224, 144, 144, 144, 224,   \* D
       240, 128, 240, 128, 240,   \* E
       240, 128, 240, 128, 128 >> \* F

U8 == 256

U16 == 65536

VF == 15

-----------------------------------------------------------------------------
(* Bounds of the model *)

\* Registers 0..LowRegs, 14 and 15 are the ones the generated programs name.
LowRegs == 1

\* The call stack is not bounded by the program; the model stops calling at
\* this depth, one past the 16 levels of the original machine's stack.
MaxStack == 17

\* update_timers on its own is called this many times: past the 255 calls
\* that bring the largest timer value to 0.
MaxUpdates == 258

RegIdx == (0..LowRegs) \cup {14, VF}

ByteVals == {0, 1, 128, 255}

-----------------------------------------------------------------------------
(* parser.rs: Instruction::from_opcode *)

Ok(instr) == [ok |-> TRUE, instr |-> instr]

UnknownOpcode(opcode) == [kind |-> "UnknownOpcode", code |-> opcode]

Err(e) == [ok |-> FALSE, err |-> e]

NoError == [kind |-> "None"]

I0(tag) == [tag |-> tag]

IAddr(tag, address) == [tag |-> tag, address |-> address]

IRegByte(tag, register, value) ==
    [tag |-> tag, register |-> register, value |-> value]

IRegReg(tag, register_x, register_y) ==
    [tag |-> tag, register_x |-> register_x, register_y |-> register_y]

IReg(tag, register) == [tag |-> tag, register |-> register]

IDraw(register_x, register_y, sprite) ==
    [tag |-> "DrawSprite", register_x |-> register_x,
     register_y |-> register_y, sprite |-> sprite]

Nibble1(opcode) == (opcode \div 4096) % 16

Nibble2(opcode) == (opcode \div 256) % 16

Nibble3(opcode) == (opcode \div 16) % 16

Nibble4(opcode) == opcode % 16

\* the match on (n1, n2, n3, n4)
match_nibbles(opcode, n1, n2, n3, n4) ==
    LET address == opcode % 4096
        byte_value == opcode % 256
    IN  CASE n1 = 0 /\ n2 = 0 /\ n3 = 14 /\ n4 = 0 -> Ok(I0("ClearScreen"))
          [] n1 = 0 /\ n2 = 0 /\ n3 = 14 /\ n4 = 14 ->
                Ok(I0("ReturnFromSubroutine"))
          [] n1 = 1 -> Ok(IAddr("Jump", address))
          [] n1 = 2 -> Ok(IAddr("Call", address))
          [] n1 = 3 -> Ok(IRegByte("SkipIfEqualByte", n2, byte_value))
          [] n1 = 4 -> Ok(IRegByte("SkipIfNotEqualByte", n2, byte_value))
          [] n1 = 5 /\ n4 = 0 -> Ok(IRegReg("SkipIfRegistersEqual", n2, n3))
          [] n1 = 6 -> Ok(IRegByte("SetRegisterToValue", n2, byte_value))
          [] n1 = 7 -> Ok(IRegByte("AddToRegister", n2, byte_value))
          [] n1 = 8 /\ n4 = 0 ->
                Ok(IRegReg("SetRegisterToRegisterValue", n2, n3))
          [] n1 = 8 /\ n4 = 1 -> Ok(IRegReg("RegistersBitwiseOr", n2, n3))
          [] n1 = 8 /\ n4 = 2 -> Ok(IRegReg("RegistersBitwiseAnd", n2, n3))
          [] n1 = 8 /\ n4 = 3 -> Ok(IRegReg("RegistersBitwiseXor", n2, n3))
          [] n1 = 8 /\ n4 = 4 ->
                Ok(IRegReg("RegistersSumWithOverflow", n2, n3))
          [] n1 = 8 /\ n4 = 5 ->
                Ok(IRegReg("SubtractRegisterFromRegisterValue", n2, n3))
          [] n1 = 8 /\ n4 = 6 -> Ok(IReg("ShiftRegisterBitsRight", n2))
          [] n1 = 8 /\ n4 = 7 ->
                Ok(IRegReg("SubtractRegisterValueFromRegister", n2, n3))
          [] n1 = 8 /\ n4 = 14 -> Ok(IReg("ShiftRegisterBitsLeft", n2))
          [] n1 = 9 /\ n4 = 0 ->
                Ok(IRegReg("SkipIfRegistersNotEqual", n2, n3))
          [] n1 = 10 -> Ok(IAddr("SetIndexRegisterToValue", address))
          [] n1 = 11 -> Ok(IAddr("JumpByValue", address))
          [] n1 = 12 ->
                Ok(IRegByte("SetRegisterToRandAndValue", n2, byte_value))
          [] n1 = 13 -> Ok(IDraw(n2, n3, n4))
          [] n1 = 14 /\ n3 = 9 /\ n4 = 14 ->
                Ok(IReg("SkipIfKeyEqualsRegister", n2))
          [] n1 = 14 /\ n3 = 10 /\ n4 = 1 ->
                Ok(IReg("SkipIfKeyNotEqualsRegister", n2))
          [] n1 = 15 /\ n3 = 0 /\ n4 = 7 ->
                Ok(IReg("SetRegisterToDelayTimerValue", n2))
          [] n1 = 15 /\ n3 = 1 /\ n4 = 5 ->
                Ok(IReg("SetDelayTimerToRegisterValue", n2))
          [] n1 = 15 /\ n3 = 1 /\ n4 = 8 ->
                Ok(IReg("SetSoundTimerToRegisterValue", n2))
          [] n1 = 15 /\ n3 = 2 /\ n4 = 9 ->
                Ok(IReg("SetIndexRegisterToSpriteForRegister", n2))
          [] n1 = 15 /\ n3 = 3 /\ n4 = 3 ->
                Ok(IReg("StoreBinaryCodedDecimalAtIndexRegisterValue", n2))
          [] n1 = 15 /\ n3 = 1 /\ n4 = 14 ->
                Ok(IReg("AddRegisterToIndexRegister", n2))
          [] n1 = 15 /\ n3 = 5 /\ n4 = 5 ->
                Ok(IReg("DumpRegistersToMemoryAtIndexRegister", n2))
          [] n1 = 15 /\ n3 = 6 /\ n4 = 5 ->
                Ok(IReg("LoadMemoryToRegistersAtIndexRegister", n2))
          [] OTHER -> Err(UnknownOpcode(opcode))

\* variant: the low nibble is masked with 0x7 instead of 0xF
from_opcode_mask7(opcode) ==
    match_nibbles(opcode, Nibble1(opcode), Nibble2(opcode), Nibble3(opcode),
                  opcode % 8)

\* variant: the two middle nibbles are taken in the wrong order
from_opcode_swapped(opcode) ==
    match_nibbles(opcode, Nibble1(opcode), Nibble3(opcode), Nibble2(opcode),
                  Nibble4(opcode))

from_opcode(opcode) ==
    match_nibbles(opcode, Nibble1(opcode), Nibble2(opcode), Nibble3(opcode),
                  Nibble4(opcode))

-----------------------------------------------------------------------------
(* u8 / u16 arithmetic *)

RECURSIVE BitAnd(_, _)
BitAnd(a, b) ==
    IF a = 0 \/ b = 0 THEN 0
    ELSE (a % 2) * (b % 2) + 2 * BitAnd(a \div 2, b \div 2)

RECURSIVE BitOr(_, _)
BitOr(a, b) ==
    IF a = 0 THEN b
    ELSE IF b = 0 THEN a
    ELSE (IF a % 2 = 1 \/ b % 2 = 1 THEN 1 ELSE 0)
         + 2 * BitOr(a \div 2, b \div 2)

RECURSIVE BitXor(_, _)
BitXor(a, b) ==
    IF a = 0 THEN b
    ELSE IF b = 0 THEN a
    ELSE ((a + b) % 2) + 2 * BitXor(a \div 2, b \div 2)

\* u8::overflowing_add
overflowing_add(a, b) == [value |-> (a + b) % U8, overflow |-> a + b >= U8]

\* u8::overflowing_sub
overflowing_sub(a, b) == [value |-> (a - b + U8) % U8, overflow |-> a < b]

\* a + b on u16: the sum, and whether it left the type's range (a debug
\* build panics there, a release build wraps)
add_u16(a, b) == [value |-> (a + b) % U16, overflow |-> a + b >= U16]

-----------------------------------------------------------------------------
(* state.rs: State::new, and the reads of ram;  display.rs: CLIDisplay *)

InitialRam(a) ==
    IF a >= FONT_BASE /\ a < FONT_BASE + Len(FONT_DATA)
    THEN FONT_DATA[a - FONT_BASE + 1]
    ELSE 0

ReadRam(r, a) == IF a \in DOMAIN r THEN r[a] ELSE InitialRam(a)

RamAt(a) == ReadRam(ram, a)

WriteRam(r, a, v) == (a :> v) @@ r

ReadScreen(s, row, col) == IF <<row, col>> \in DOMAIN s THEN s[<<row, col>>] ELSE 0

ScreenAt(row, col) == ReadScreen(screen, row, col)

\* CLIDisplay::clear
clear == << >>

\* variant of byte_to_bits: bit 0 is the least significant one
byte_to_bits_lsb_first(b, k) == (b \div (2 ^ k)) % 2

\* byte_to_bits: bit i (0 = most significant) of b
byte_to_bits(b, k) == (b \div (2 ^ (7 - k))) % 2

\* variant of the inner loop: a set bit sets the cell instead of toggling it
RECURSIVE draw_bits_set(_, _, _, _, _)
draw_bits_set(d, row, x, data, xo) ==
    IF xo >= 8 THEN d
    ELSE LET col == x + xo IN
         IF col >= SCREEN_WIDTH THEN d
         ELSE IF byte_to_bits(data, xo) = 1
              THEN draw_bits_set(
                       [screen |-> (<<row, col>> :> 1) @@ d.screen,
                        did_switch |-> d.did_switch
                                       \/ ReadScreen(d.screen, row, col) = 1],
                       row, x, data, xo + 1)
              ELSE draw_bits_set(d, row, x, data, xo + 1)

\* variant of the inner loop: did_switch is set by every toggle
RECURSIVE draw_bits_any_toggle(_, _, _, _, _)
draw_bits_any_toggle(d, row, x, data, xo) ==
    IF xo >= 8 THEN d
    ELSE LET col == x + xo IN
         IF col >= SCREEN_WIDTH THEN d
         ELSE IF byte_to_bits(data, xo) = 1
              THEN draw_bits_any_toggle(
                       [screen |-> (<<row, col>> :>
                                       (1 - ReadScreen(d.screen, row, col)))
                                   @@ d.screen,
                        did_switch |-> TRUE],
                       row, x, data, xo + 1)
              ELSE draw_bits_any_toggle(d, row, x, data, xo + 1)

\* CLIDisplay::draw, the inner loop over the bits of one sprite byte from
\* bit xo on; d is [screen, did_switch]
RECURSIVE draw_bits(_, _, _, _, _)
draw_bits(d, row, x, data, xo) ==
    IF xo >= 8 THEN d
    ELSE LET col == x + xo IN
         IF col >= SCREEN_WIDTH THEN d
         ELSE IF byte_to_bits(data, xo) = 1
              THEN IF ReadScreen(d.screen, row, col) = 1
                   THEN draw_bits([screen |-> (<<row, col>> :> 0) @@ d.screen,
                                   did_switch |-> TRUE], row, x, data, xo + 1)
                   ELSE draw_bits([screen |-> (<<row, col>> :> 1) @@ d.screen,
                                   did_switch |-> d.did_switch],
                                  row, x, data, xo + 1)
              ELSE draw_bits(d, row, x, data, xo + 1)

\* CLIDisplay::draw, the outer loop over the sprite's bytes from index yo on
RECURSIVE draw_rows(_, _, _, _, _)
draw_rows(d, x, y, sprite, yo) ==
    IF yo >= Len(sprite) THEN d
    ELSE LET row == y + yo IN
         IF row >= SCREEN_HEIGHT THEN d
         ELSE draw_rows(draw_bits(d, row, x, sprite[yo + 1], 0),
                        x, y, sprite, yo + 1)

\* CLIDisplay::draw
draw(s, reg_x, reg_y, sprite) ==
    draw_rows([screen |-> s, did_switch |-> FALSE],
              reg_x % SCREEN_WIDTH, reg_y % SCREEN_HEIGHT, sprite, 0)

-----------------------------------------------------------------------------
(* interpreter.rs: Interpreter::update_timers *)

\* variant: the delay timer is decremented without the test for zero, in a
\* build that wraps
delay_after_update_unguarded(d) == (d + U8 - 1) % U8

delay_after_update(d) == IF d > 0 THEN d - 1 ELSE d

sound_after_update(s) == IF s > 0 THEN s - 1 ELSE s

\* variant: the bell rings at every update of a running sound timer
bell_on_update_running(s) == s > 0

bell_on_update(s) == s > 0 /\ s = 1

-----------------------------------------------------------------------------
(* interpreter.rs: Interpreter::step, the register effect of the arms of   *)
(* the 8XY* family (the assignments in the order the arm makes them)       *)

\* variant of 8XY4: the flag is written before the sum
RegistersSumFlagFirst(regs, register_x, register_y) ==
    LET vx == regs[register_x]
        vy == regs[register_y]
        r == overflowing_add(vx, vy)
        regs1 == [regs EXCEPT ![VF] = IF r.overflow THEN 1 ELSE 0]
    IN  [regs1 EXCEPT ![register_x] = r.value]

\* variant of 8XY5: the flag is the borrow instead of its negation
SubtractBorrowFlag(regs, register_x, register_y) ==
    LET vx == regs[register_x]
        vy == regs[register_y]
        r == overflowing_sub(vx, vy)
        regs1 == [regs EXCEPT ![register_x] = r.value]
    IN  [regs1 EXCEPT ![VF] = IF r.overflow THEN 1 ELSE 0]

\* variant of 8XY7: the operands are not reversed
SubtractNotReversed(regs, register_x, register_y) ==
    LET vx == regs[register_x]
        vy == regs[register_y]
        r == overflowing_sub(vx, vy)
        regs1 == [regs EXCEPT ![register_x] = r.value]
    IN  [regs1 EXCEPT ![VF] = IF r.overflow THEN 0 ELSE 1]

\* 8XY4
RegistersSumWithOverflow(regs, register_x, register_y) ==
    LET vx == regs[register_x]
        vy == regs[register_y]
        r == overflowing_add(vx, vy)
        regs1 == [regs EXCEPT ![register_x] = r.value]
    IN  [regs1 EXCEPT ![VF] = IF r.overflow THEN 1 ELSE 0]

\* 8XY5
SubtractRegisterFromRegisterValue(regs, register_x, register_y) ==
    LET vx == regs[register_x]
        vy == regs[register_y]
        r == overflowing_sub(vx, vy)
        regs1 == [regs EXCEPT ![register_x] = r.value]
    IN  [regs1 EXCEPT ![VF] = IF r.overflow THEN 0 ELSE 1]

\* 8XY7
SubtractRegisterValueFromRegister(regs, register_x, register_y) ==
    LET vx == regs[register_x]
        vy == regs[register_y]
        r == overflowing_sub(vy, vx)
        regs1 == [regs EXCEPT ![register_x] = r.value]
    IN  [regs1 EXCEPT ![VF] = IF r.overflow THEN 0 ELSE 1]

\* 8XY6
ShiftRegisterBitsRight(regs, register) ==
    LET regs1 == [regs EXCEPT ![VF] = regs[register] % 2]
    IN  [regs1 EXCEPT ![register] = regs1[register] \div 2]

\* 8XYE
ShiftRegisterBitsLeft(regs, register) ==
    LET regs1 == [regs EXCEPT ![VF] = regs[register] \div 128]
    IN  [regs1 EXCEPT ![register] = (regs1[register] * 2) % U8]

-----------------------------------------------------------------------------
(* The program images the loader hands to load_rom *)

Op(n1, n2, n3, n4) == n1 * 4096 + n2 * 256 + n3 * 16 + n4

OpXKK(n1, x, kk) == n1 * 4096 + x * 256 + kk

OpNNN(n1, nnn) == n1 * 4096 + nnn

\* the bytes of a sequence of opcodes, high byte first
RomBytes(words) ==
    [k \in 1..(2 * Len(words)) |->
        IF k % 2 = 1 THEN words[(k + 1) \div 2] \div 256
                     ELSE words[k \div 2] % 256]

\* one instruction on registers x and y
TestOps(x, y) ==
    {OpXKK(n1, x, kk) : n1 \in {3, 4, 7}, kk \in ByteVals}
    \cup {Op(5, x, y, 0), Op(9, x, y, 0)}
    \cup {Op(8, x, y, k) : k \in (0..7) \cup {14}}
    \cup {Op(13, x, y, 2)}
    \cup {Op(14, x, 9, 14), Op(14, x, 10, 1)}
    \cup {Op(15, x, 0, 7), Op(15, x, 1, 5), Op(15, x, 1, 8), Op(15, x, 2, 9),
          Op(15, x, 3, 3), Op(15, x, 1, 14), Op(15, x, 5, 5), Op(15, x, 6, 5)}

\* Vx := a; Vy := b; one instruction on them
RomsRegs ==
    {<<OpXKK(6, x, a), OpXKK(6, y, b), op>> :
        <<x, a, y, b, op>> \in
            UNION {{<<x, a, y, b, op>> : op \in TestOps(x, y)} :
                   <<x, a, y, b>> \in RegIdx \X ByteVals \X RegIdx \X ByteVals}}

\* ten register loads, then a last instruction of the frame's batch
TenLoads == [k \in 1..(INSTRUCTIONS_PER_FRAME - 1) |-> OpXKK(6, 0, k)]

\* control flow, timers and the run loop
RomsControl ==
    {<<OpNNN(1, nnn)>> : nnn \in {0, 512, 514, 516, 768, 4095}}
    \cup {
        <<OpNNN(1, 518), OpXKK(6, 0, 17), OpXKK(6, 1, 34), OpXKK(6, 2, 51)>>,
        <<OpXKK(6, 0, 17), OpNNN(1, 514)>>,
        <<Op(0, 0, 14, 14)>>,
        <<Op(0, 0, 14, 0)>>,
        <<OpNNN(2, 516), 0, Op(0, 0, 14, 14)>>,
        <<OpNNN(2, 516), OpNNN(1, 514), OpNNN(2, 520), Op(0, 0, 14, 14),
          Op(0, 0, 14, 14)>>,
        <<OpNNN(2, 512)>>,
        <<OpXKK(12, 0, 255)>>,
        <<OpXKK(12, 15, 15)>>,
        <<OpXKK(6, 1, 255), OpXKK(12, 1, 0)>>,
        <<OpXKK(6, 0, 1), Op(15, 0, 1, 8), OpXKK(6, 0, 0), Op(15, 0, 1, 8)>>,
        <<OpXKK(6, 1, 1), Op(15, 1, 1, 8), OpNNN(11, 516)>>,
        <<OpXKK(12, 0, 255), OpXKK(7, 0, 1)>>,
        <<OpXKK(12, 0, 255), OpXKK(7, 0, 255)>>,
        <<OpNNN(10, 768), OpXKK(12, 0, 255), Op(15, 0, 3, 3)>>,
        <<OpNNN(11, 512)>>,
        <<OpXKK(6, 0, 255), OpNNN(11, 4095)>>,
        <<OpXKK(6, 0, 2), OpNNN(11, 512)>>,
        <<OpNNN(10, 768), Op(15, 0, 5, 5)>>,
        <<OpXKK(6, 0, 3), Op(15, 0, 1, 8), Op(15, 0, 1, 5), OpNNN(11, 515)>>,
        <<OpXKK(6, 1, 2), Op(15, 1, 1, 8), Op(15, 1, 1, 5), Op(15, 2, 0, 7),
          Op(15, 2, 0, 7), Op(15, 2, 0, 7)>>,
        TenLoads \o <<OpNNN(1, 532)>>,
        TenLoads \o <<0>>,
        TenLoads \o <<Op(0, 0, 14, 14)>>,
        <<OpXKK(6, 5, 2), Op(15, 5, 1, 5), Op(15, 5, 1, 8)>>
            \o TenLoads \o <<OpNNN(1, 538)>>,
        <<OpXKK(6, 5, 2), Op(15, 5, 1, 5), Op(15, 5, 1, 8)>>
            \o [k \in 1..7 |-> OpXKK(6, 0, k)] \o <<OpNNN(1, 532)>>,
        <<OpXKK(6, 5, 2), Op(15, 5, 1, 5), Op(15, 5, 1, 8)>>
            \o [k \in 1..7 |-> OpXKK(6, 0, k)] \o <<Op(5, 0, 0, 1)>>
    }

\* I := nnn; V0..Vx := 255, 254, ..; FX55; V0..Vx := 0; FX65
RoundTrip(nnn, x) ==
    <<OpNNN(10, nnn)>>
    \o [k \in 1..(x + 1) |-> OpXKK(6, k - 1, 256 - k)]
    \o <<Op(15, x, 5, 5)>>
    \o [k \in 1..(x + 1) |-> OpXKK(6, k - 1, 0)]
    \o <<Op(15, x, 6, 5)>>

\* I := 0xFFF; V1 := 255; 242 times I := I + V1, counted down in V2; halt:
\* the 241st sum passes 65535
IndexOverflow ==
    <<OpNNN(10, 4095), OpXKK(6, 1, 255), OpXKK(6, 2, 242), Op(15, 1, 1, 14),
      OpXKK(7, 2, 255), OpXKK(3, 2, 0), OpNNN(11, INITIAL_PC + 6),
      OpNNN(1, INITIAL_PC + 14)>>

\* memory: BCD store, register block dump and load at chosen addresses,
\* the font range included; the index register up to and past 65535
RomsMemory ==
    {RoundTrip(nnn, x) : nnn \in {768, 4095}, x \in {0, 1}}
    \cup {
        IndexOverflow,
        <<OpXKK(12, 0, 15), Op(15, 0, 2, 9)>>,
        <<OpNNN(10, FONT_BASE), Op(15, 0, 3, 3)>>,
        <<OpNNN(10, FONT_BASE + 79), OpXKK(6, 0, 170), Op(15, 0, 5, 5)>>,
        <<OpXKK(12, 0, 255), OpNNN(11, 768)>>,
        <<OpNNN(10, 4094), Op(15, 0, 3, 3)>>,
        <<OpNNN(10, 80), Op(15, 1, 6, 5)>>,
        <<OpNNN(10, 4095), Op(15, 1, 6, 5)>>
    }

\* where the sprite bytes of a drawing program sit
SpriteData == INITIAL_PC + 12

\* I := sprite; V[rx] := a; V[ry] := b; draw twice; halt; the sprite bytes
DrawTwice(rx, ry, a, b, sprite) ==
    RomBytes(<<OpNNN(10, SpriteData), OpXKK(6, rx, a), OpXKK(6, ry, b),
               Op(13, rx, ry, Len(sprite)), Op(13, rx, ry, Len(sprite)),
               OpNNN(1, INITIAL_PC + 10)>>)
    \o sprite

DrawXs == {0, 1, 60, 63, 64, 200}

DrawYs == {0, 30, 31, 32, 255}

Sprites == {<<128>>, <<1>>, <<255, 129>>, <<0, 255>>, <<180, 1, 128>>}

\* drawing: origins inside and outside the grid, sprites crossing the edges
RomsDraw ==
    {DrawTwice(r[1], r[2], a, b, sprite) :
        r \in {<<0, 1>>, <<VF, 1>>, <<0, VF>>},
        a \in DrawXs, b \in DrawYs, sprite \in Sprites}

\* every opcode alone at the origin would be 65536 images; these are the
\* ones whose nibbles sit next to a row of the instruction table
RomsSingle ==
    {<<Op(n1, n2, n3, n4)>> :
        <<n1, n2, n3, n4>> \in
            {0, 5, 8, 9, 14, 15} \X {0, 1} \X {0, 1, 2, 3, 5, 6, 9, 10, 14}
                \X {0, 1, 3, 5, 7, 8, 9, 14, 15}}

\* the longest image that fits between the origin and the end of ram
MaxImage == TOTAL_RAM_SIZE - INITIAL_PC

\* images that fill ram to its last cell, and one byte more
RomsLong ==
    {[k \in 1..L |-> IF k = L THEN 255 ELSE 0] : L \in {MaxImage, MaxImage + 1}}

Roms ==
    {RomBytes(w) : w \in RomsRegs \cup RomsControl \cup RomsMemory
                         \cup RomsSingle}
    \cup RomsDraw \cup RomsLong

-----------------------------------------------------------------------------
(* Interpreter::new; main: load_rom, then run *)

NoStep == [addr |-> -1, opcode |-> -1]

NoDecode == [ok |-> FALSE, err |-> NoError]

NoDrawing == [draws |-> 0]

Init ==
    /\ ram = << >>
    /\ stack = << >>
    /\ pc = INITIAL_PC
    /\ registers = [r \in 0..15 |-> 0]
    /\ index_register = 0
    /\ delay_timer = 0
    /\ sound_timer = 0
    /\ screen = << >>
    /\ phase = "constructed"
    /\ i = 0
    /\ result = "None"
    /\ error = NoError
    /\ bell = FALSE
    /\ last = NoStep
    /\ overflow_checks \in BOOLEAN
    /\ decode_in = 0
    /\ decode_out = NoDecode
    /\ timer_in = 0
    /\ updates = 0
    /\ image = << >>
    /\ pending_calls = << >>
    /\ drawing = NoDrawing

\* Interpreter::load_rom: ram[start..end].copy_from_slice(&rom); the slice
\* panics when end is past the end of ram.  run() follows and enters the
\* first frame's batch.
\* variant of load_rom: the copy starts one byte after the origin
load_rom_after_origin ==
    /\ phase = "constructed"
    /\ \E rom \in Roms :
        LET start == INITIAL_PC + 1
            end == start + Len(rom)
        IN  /\ image' = rom
            /\ IF end > TOTAL_RAM_SIZE
               THEN /\ phase' = "panicked"
                    /\ result' = "Panic"
                    /\ ram' = ram
               ELSE /\ phase' = "batch"
                    /\ result' = result
                    /\ ram' = [a \in start..(end - 1) |->
                                rom[a - start + 1]] @@ ram
    /\ UNCHANGED <<stack, pc, registers, index_register, delay_timer,
                   sound_timer, screen, i, error, bell, last, overflow_checks,
                   decoder, timer_call, pending_calls, drawing>>

load_rom ==
    /\ phase = "constructed"
    /\ \E rom \in Roms :
        LET start == INITIAL_PC
            end == start + Len(rom)
        IN  /\ image' = rom
            /\ IF end > TOTAL_RAM_SIZE
               THEN /\ phase' = "panicked"
                    /\ result' = "Panic"
                    /\ ram' = ram
               ELSE /\ phase' = "batch"
                    /\ result' = result
                    /\ ram' = [a \in start..(end - 1) |->
                                rom[a - start + 1]] @@ ram
    /\ UNCHANGED <<stack, pc, registers, index_register, delay_timer,
                   sound_timer, screen, i, error, bell, last, overflow_checks,
                   decoder, timer_call, pending_calls, drawing>>

-----------------------------------------------------------------------------
(* Interpreter::run and Interpreter::step *)

\* variant: a plain `break` leaves only the for loop
BreakInnerLoop == "frame_end"

\* where `break 'main_loop` leaves the program: run() returns
BreakTarget == "exited"

\* variant: the test reads pc after it was advanced
jump_halts_after_advance(instruction_address, address) ==
    instruction_address + 2 = address

\* the test of the Jump arm: the jump targets its own address
jump_halts(instruction_address, address) == instruction_address = address

\* the for loop's next position after a step that returned Continue
NextInBatch == IF i + 1 < INSTRUCTIONS_PER_FRAME THEN "batch" ELSE "frame_end"

Fetching == phase = "batch"

\* both fetch reads are inside ram
FetchOk == Fetching /\ pc + 1 < TOTAL_RAM_SIZE

opcode == RamAt(pc) * 256 + RamAt(pc + 1)

decoded == from_opcode(opcode)

instruction == decoded.instr

Executing(tag) == FetchOk /\ decoded.ok /\ instruction.tag = tag

\* the history of calls after a completed step of the instruction `tag` at
\* pc: a call is added, a return takes the newest call away
pending_after(tag) ==
    CASE tag = "Call" -> Append(pending_calls, pc)
      [] tag = "ReturnFromSubroutine" ->
            SubSeq(pending_calls, 1, Len(pending_calls) - 1)
      [] OTHER -> pending_calls

\* the step returned Ok(StepResult::Continue)
Continue ==
    /\ result' = "Continue"
    /\ error' = NoError
    /\ i' = i + 1
    /\ phase' = NextInBatch
    /\ last' = [addr |-> pc, opcode |-> opcode]
    /\ pending_calls' = pending_after(instruction.tag)
    /\ UNCHANGED <<overflow_checks, decoder, timer_call, image, drawing>>

\* the step returned Ok(Halt) or Err(e): break 'main_loop
Break(r, e) ==
    /\ result' = r
    /\ error' = e
    /\ i' = i
    /\ phase' = BreakTarget
    /\ last' = [addr |-> pc, opcode |-> opcode]
    /\ UNCHANGED <<overflow_checks, decoder, timer_call, image, pending_calls,
                   drawing>>

\* the step panicked: the process is aborted
Panic(at) ==
    /\ result' = "Panic"
    /\ error' = NoError
    /\ i' = i
    /\ phase' = "panicked"
    /\ last' = at
    /\ UNCHANGED <<overflow_checks, decoder, timer_call, image, pending_calls,
                   drawing>>

ThisStep == [addr |-> pc, opcode |-> opcode]

\* an arm that only assigns registers
ExecRegs(regs) ==
    /\ pc' = pc + 2
    /\ registers' = regs
    /\ bell' = FALSE
    /\ Continue
    /\ UNCHANGED <<ram, stack, index_register, delay_timer, sound_timer, screen>>

\* an arm that only moves pc
ExecPc(target) ==
    /\ pc' = target
    /\ bell' = FALSE
    /\ Continue
    /\ UNCHANGED machine

\* ram[pc] or ram[pc + 1] is out of bounds
StepFetchPanic ==
    /\ Fetching
    /\ ~FetchOk
    /\ Panic([addr |-> pc, opcode |-> -1])
    /\ bell' = FALSE
    /\ UNCHANGED <<pc, machine>>

\* variant: the opcode is decoded before pc is advanced
StepUnknownOpcodeNoAdvance ==
    /\ FetchOk
    /\ ~decoded.ok
    /\ pc' = pc
    /\ Break("Err", decoded.err)
    /\ bell' = FALSE
    /\ UNCHANGED machine

\* Instruction::from_opcode(opcode)? returns the error
StepUnknownOpcode ==
    /\ FetchOk
    /\ ~decoded.ok
    /\ pc' = pc + 2
    /\ Break("Err", decoded.err)
    /\ bell' = FALSE
    /\ UNCHANGED machine

StepClearScreen ==
    /\ Executing("ClearScreen")
    /\ pc' = pc + 2
    /\ screen' = clear
    /\ bell' = FALSE
    /\ Continue
    /\ UNCHANGED <<ram, stack, registers, index_register, delay_timer,
                   sound_timer>>

\* variant of 00EE: the return address is read and left on the stack
StepReturnFromSubroutineKeepsEntry ==
    /\ Executing("ReturnFromSubroutine")
    /\ bell' = FALSE
    /\ IF stack = << >>
       THEN /\ pc' = pc + 2
            /\ Panic(ThisStep)
            /\ UNCHANGED machine
       ELSE /\ pc' = stack[Len(stack)]
            /\ Continue
            /\ UNCHANGED machine

StepReturnFromSubroutine ==
    /\ Executing("ReturnFromSubroutine")
    /\ bell' = FALSE
    /\ IF stack = << >>
       THEN /\ pc' = pc + 2
            /\ Panic(ThisStep)
            /\ UNCHANGED machine
       ELSE /\ pc' = stack[Len(stack)]
            /\ stack' = SubSeq(stack, 1, Len(stack) - 1)
            /\ Continue
            /\ UNCHANGED <<ram, registers, index_register, delay_timer,
                           sound_timer, screen>>

StepJump ==
    /\ Executing("Jump")
    /\ pc' = pc + 2
    /\ bell' = FALSE
    /\ IF jump_halts(pc, instruction.address)
       THEN Break("Halt", NoError)
       ELSE Continue
    /\ UNCHANGED machine

\* variant of 2NNN: the address pushed is the call's own
StepCallPushesOwnAddress ==
    /\ Executing("Call")
    /\ Len(stack) < MaxStack
    /\ stack' = Append(stack, pc)
    /\ pc' = instruction.address
    /\ bell' = FALSE
    /\ Continue
    /\ UNCHANGED <<ram, registers, index_register, delay_timer, sound_timer,
                   screen>>

StepCall ==
    /\ Executing("Call")
    /\ Len(stack) < MaxStack
    /\ stack' = Append(stack, pc + 2)
    /\ pc' = instruction.address
    /\ bell' = FALSE
    /\ Continue
    /\ UNCHANGED <<ram, registers, index_register, delay_timer, sound_timer,
                   screen>>

StepSkipIfEqualByte ==
    /\ Executing("SkipIfEqualByte")
    /\ ExecPc(IF registers[instruction.register] = instruction.value
              THEN pc + 4 ELSE pc + 2)

StepSkipIfNotEqualByte ==
    /\ Executing("SkipIfNotEqualByte")
    /\ ExecPc(IF registers[instruction.register] # instruction.value
              THEN pc + 4 ELSE pc + 2)

StepSkipIfRegistersEqual ==
    /\ Executing("SkipIfRegistersEqual")
    /\ ExecPc(IF registers[instruction.register_x]
                    = registers[instruction.register_y]
              THEN pc + 4 ELSE pc + 2)

\* variant of 9XY0: the test is the one of 5XY0
StepSkipIfRegistersNotEqualInverted ==
    /\ Executing("SkipIfRegistersNotEqual")
    /\ ExecPc(IF registers[instruction.register_x]
                    = registers[instruction.register_y]
              THEN pc + 4 ELSE pc + 2)

StepSkipIfRegistersNotEqual ==
    /\ Executing("SkipIfRegistersNotEqual")
    /\ ExecPc(IF registers[instruction.register_x]
                    # registers[instruction.register_y]
              THEN pc + 4 ELSE pc + 2)

StepSetRegisterToValue ==
    /\ Executing("SetRegisterToValue")
    /\ ExecRegs([registers EXCEPT ![instruction.register] = instruction.value])

\* variant of 7XNN: the carry of the sum is written to VF
StepAddToRegisterCarry ==
    /\ Executing("AddToRegister")
    /\ LET r == overflowing_add(registers[instruction.register],
                                instruction.value)
           regs1 == [registers EXCEPT ![instruction.register] = r.value]
       IN  ExecRegs([regs1 EXCEPT ![VF] = IF r.overflow THEN 1 ELSE 0])

StepAddToRegister ==
    /\ Executing("AddToRegister")
    /\ ExecRegs([registers EXCEPT ![instruction.register] =
                    overflowing_add(@, instruction.value).value])

StepSetRegisterToRegisterValue ==
    /\ Executing("SetRegisterToRegisterValue")
    /\ ExecRegs([registers EXCEPT ![instruction.register_x] =
                    registers[instruction.register_y]])

StepRegistersBitwiseOr ==
    /\ Executing("RegistersBitwiseOr")
    /\ ExecRegs([registers EXCEPT ![instruction.register_x] =
                    BitOr(@, registers[instruction.register_y])])

StepRegistersBitwiseAnd ==
    /\ Executing("RegistersBitwiseAnd")
    /\ ExecRegs([registers EXCEPT ![instruction.register_x] =
                    BitAnd(@, registers[instruction.register_y])])

StepRegistersBitwiseXor ==
    /\ Executing("RegistersBitwiseXor")
    /\ ExecRegs([registers EXCEPT ![instruction.register_x] =
                    BitXor(@, registers[instruction.register_y])])

StepRegistersSumWithOverflow ==
    /\ Executing("RegistersSumWithOverflow")
    /\ ExecRegs(RegistersSumWithOverflow(registers, instruction.register_x,
                                         instruction.register_y))

StepSubtractRegisterFromRegisterValue ==
    /\ Executing("SubtractRegisterFromRegisterValue")
    /\ ExecRegs(SubtractRegisterFromRegisterValue(
                    registers, instruction.register_x, instruction.register_y))

StepShiftRegisterBitsRight ==
    /\ Executing("ShiftRegisterBitsRight")
    /\ ExecRegs(ShiftRegisterBitsRight(registers, instruction.register))

StepSubtractRegisterValueFromRegister ==
    /\ Executing("SubtractRegisterValueFromRegister")
    /\ ExecRegs(SubtractRegisterValueFromRegister(
                    registers, instruction.register_x, instruction.register_y))

StepShiftRegisterBitsLeft ==
    /\ Executing("ShiftRegisterBitsLeft")
    /\ ExecRegs(ShiftRegisterBitsLeft(registers, instruction.register))

StepSetIndexRegisterToValue ==
    /\ Executing("SetIndexRegisterToValue")
    /\ pc' = pc + 2
    /\ index_register' = instruction.address
    /\ bell' = FALSE
    /\ Continue
    /\ UNCHANGED <<ram, stack, registers, delay_timer, sound_timer, screen>>

\* variant of BNNN: the sum is cut to an address of 12 bits
StepJumpByValueTo12Bits ==
    /\ Executing("JumpByValue")
    /\ ExecPc((registers[0] + instruction.address) % TOTAL_RAM_SIZE)

StepJumpByValue ==
    /\ Executing("JumpByValue")
    /\ ExecPc(registers[0] + instruction.address)

StepSetRegisterToRandAndValue ==
    /\ Executing("SetRegisterToRandAndValue")
    /\ \E n \in 0..255 :
        ExecRegs([registers EXCEPT ![instruction.register] =
                    BitAnd(n, instruction.value)])


\* the arm of DXYN up to the slice &ram[start..end]: whether it panics
\* (the u16 sum overflows in a build that checks, or the slice is not
\* inside ram)
sprite_slice(index, sprite_len, checks) ==
    LET start == index
        sum == add_u16(index, sprite_len)
        end == sum.value
    IN  IF (sum.overflow /\ checks) \/ start > end \/ end > TOTAL_RAM_SIZE
        THEN [ok |-> FALSE, bytes |-> << >>]
        ELSE [ok |-> TRUE,
              bytes |-> [k \in 1..(end - start) |-> RamAt(start + k - 1)]]

StepDrawSprite ==
    /\ Executing("DrawSprite")
    /\ pc' = pc + 2
    /\ bell' = FALSE
    /\ LET x == registers[instruction.register_x]
           y == registers[instruction.register_y]
           sl == sprite_slice(index_register, instruction.sprite,
                              overflow_checks)
           d == draw(screen, x, y, sl.bytes)
       IN  IF sl.ok
           THEN /\ screen' = d.screen
                /\ registers' = [registers EXCEPT
                                    ![VF] = IF d.did_switch THEN 1 ELSE 0]
                /\ Continue
           ELSE /\ Panic(ThisStep)
                /\ UNCHANGED <<screen, registers>>
    /\ UNCHANGED <<ram, stack, index_register, delay_timer, sound_timer>>

\* unimplemented!()
StepSkipIfKeyEqualsRegister ==
    /\ Executing("SkipIfKeyEqualsRegister")
    /\ pc' = pc + 2
    /\ bell' = FALSE
    /\ Panic(ThisStep)
    /\ UNCHANGED machine

\* unimplemented!()
StepSkipIfKeyNotEqualsRegister ==
    /\ Executing("SkipIfKeyNotEqualsRegister")
    /\ pc' = pc + 2
    /\ bell' = FALSE
    /\ Panic(ThisStep)
    /\ UNCHANGED machine

\* self.update_timers(); registers[register] = delay_timer
StepSetRegisterToDelayTimerValue ==
    /\ Executing("SetRegisterToDelayTimerValue")
    /\ pc' = pc + 2
    /\ delay_timer' = delay_after_update(delay_timer)
    /\ sound_timer' = sound_after_update(sound_timer)
    /\ bell' = bell_on_update(sound_timer)
    /\ registers' = [registers EXCEPT ![instruction.register] = delay_timer']
    /\ Continue
    /\ UNCHANGED <<ram, stack, index_register, screen>>

StepSetDelayTimerToRegisterValue ==
    /\ Executing("SetDelayTimerToRegisterValue")
    /\ pc' = pc + 2
    /\ delay_timer' = registers[instruction.register]
    /\ bell' = FALSE
    /\ Continue
    /\ UNCHANGED <<ram, stack, registers, index_register, sound_timer, screen>>

StepSetSoundTimerToRegisterValue ==
    /\ Executing("SetSoundTimerToRegisterValue")
    /\ pc' = pc + 2
    /\ sound_timer' = registers[instruction.register]
    /\ bell' = FALSE
    /\ Continue
    /\ UNCHANGED <<ram, stack, registers, index_register, delay_timer, screen>>

\* variant of FX29: a glyph is taken to be 4 bytes
StepSetIndexRegisterToSpriteOfFourBytes ==
    /\ Executing("SetIndexRegisterToSpriteForRegister")
    /\ pc' = pc + 2
    /\ index_register' = FONT_BASE + registers[instruction.register] * 4
    /\ bell' = FALSE
    /\ Continue
    /\ UNCHANGED <<ram, stack, registers, delay_timer, sound_timer, screen>>

StepSetIndexRegisterToSpriteForRegister ==
    /\ Executing("SetIndexRegisterToSpriteForRegister")
    /\ pc' = pc + 2
    /\ index_register' = FONT_BASE + registers[instruction.register] * 5
    /\ bell' = FALSE
    /\ Continue
    /\ UNCHANGED <<ram, stack, registers, delay_timer, sound_timer, screen>>

\* the three writes of FX33 in order, up to the first one out of bounds
RECURSIVE store_digits(_, _, _, _)
store_digits(r, at, digits, k) ==
    IF k > Len(digits) THEN [ram |-> r, ok |-> TRUE]
    ELSE IF at + k - 1 >= TOTAL_RAM_SIZE THEN [ram |-> r, ok |-> FALSE]
    ELSE store_digits(WriteRam(r, at + k - 1, digits[k]), at, digits, k + 1)

\* variant of FX33: the tens digit is not reduced modulo 10
StepStoreBinaryCodedDecimalTensUnreduced ==
    /\ Executing("StoreBinaryCodedDecimalAtIndexRegisterValue")
    /\ pc' = pc + 2
    /\ bell' = FALSE
    /\ LET num == registers[instruction.register]
           w == store_digits(ram, index_register,
                             <<num \div 100, num \div 10, num % 10>>, 1)
       IN  /\ ram' = w.ram
           /\ IF w.ok THEN Continue ELSE Panic(ThisStep)
    /\ UNCHANGED <<stack, registers, index_register, delay_timer, sound_timer,
                   screen>>

StepStoreBinaryCodedDecimalAtIndexRegisterValue ==
    /\ Executing("StoreBinaryCodedDecimalAtIndexRegisterValue")
    /\ pc' = pc + 2
    /\ bell' = FALSE
    /\ LET num == registers[instruction.register]
           w == store_digits(ram, index_register,
                             <<num \div 100, (num \div 10) % 10, num % 10>>, 1)
       IN  /\ ram' = w.ram
           /\ IF w.ok THEN Continue ELSE Panic(ThisStep)
    /\ UNCHANGED <<stack, registers, index_register, delay_timer, sound_timer,
                   screen>>

StepAddRegisterToIndexRegister ==
    /\ Executing("AddRegisterToIndexRegister")
    /\ pc' = pc + 2
    /\ bell' = FALSE
    /\ LET sum == add_u16(index_register, registers[instruction.register])
       IN  IF sum.overflow /\ overflow_checks
           THEN /\ Panic(ThisStep)
                /\ index_register' = index_register
           ELSE /\ Continue
                /\ index_register' = sum.value
    /\ UNCHANGED <<ram, stack, registers, delay_timer, sound_timer, screen>>

\* variant of FX55: the range 0..register excludes its upper end
dump_registers_exclusive(r, regs, index, ri, register, checks) ==
    [ram |-> [a \in {index + k : k \in ri..(register - 1)} |->
                regs[a - index]] @@ r,
     ok |-> TRUE]

\* the loop of FX55 from register ri on, up to the first panic
RECURSIVE dump_registers(_, _, _, _, _, _)
dump_registers(r, regs, index, ri, register, checks) ==
    IF ri > register THEN [ram |-> r, ok |-> TRUE]
    ELSE LET sum == add_u16(index, ri) IN
         IF (sum.overflow /\ checks) \/ sum.value >= TOTAL_RAM_SIZE
         THEN [ram |-> r, ok |-> FALSE]
         ELSE dump_registers(WriteRam(r, sum.value, regs[ri]), regs, index,
                             ri + 1, register, checks)

StepDumpRegistersToMemoryAtIndexRegister ==
    /\ Executing("DumpRegistersToMemoryAtIndexRegister")
    /\ pc' = pc + 2
    /\ bell' = FALSE
    /\ LET w == dump_registers(ram, registers, index_register, 0,
                               instruction.register, overflow_checks)
       IN  /\ ram' = w.ram
           /\ IF w.ok THEN Continue ELSE Panic(ThisStep)
    /\ UNCHANGED <<stack, registers, index_register, delay_timer, sound_timer,
                   screen>>

\* the loop of FX65 from register ri on, up to the first panic
RECURSIVE load_registers(_, _, _, _, _, _)
load_registers(r, regs, index, ri, register, checks) ==
    IF ri > register THEN [registers |-> regs, ok |-> TRUE]
    ELSE LET sum == add_u16(index, ri) IN
         IF (sum.overflow /\ checks) \/ sum.value >= TOTAL_RAM_SIZE
         THEN [registers |-> regs, ok |-> FALSE]
         ELSE load_registers(r, [regs EXCEPT ![ri] = ReadRam(r, sum.value)],
                             index, ri + 1, register, checks)

StepLoadMemoryToRegistersAtIndexRegister ==
    /\ Executing("LoadMemoryToRegistersAtIndexRegister")
    /\ pc' = pc + 2
    /\ bell' = FALSE
    /\ LET w == load_registers(ram, registers, index_register, 0,
                               instruction.register, overflow_checks)
       IN  /\ registers' = w.registers
           /\ IF w.ok THEN Continue ELSE Panic(ThisStep)
    /\ UNCHANGED <<ram, stack, index_register, delay_timer, sound_timer, screen>>

\* after the batch: self.update_timers(), the pacing sleep, the next frame
FrameEnd ==
    /\ phase = "frame_end"
    /\ delay_timer' = delay_after_update(delay_timer)
    /\ sound_timer' = sound_after_update(sound_timer)
    /\ bell' = bell_on_update(sound_timer)
    /\ phase' = "batch"
    /\ i' = 0
    /\ UNCHANGED <<ram, stack, pc, registers, index_register, screen, result,
                   error, last, overflow_checks, decoder, timer_call, image,
                   pending_calls, drawing>>

Step ==
    \/ StepFetchPanic
    \/ StepUnknownOpcode
    \/ StepClearScreen
    \/ StepReturnFromSubroutine
    \/ StepJump
    \/ StepCall
    \/ StepSkipIfEqualByte
    \/ StepSkipIfNotEqualByte
    \/ StepSkipIfRegistersEqual
    \/ StepSetRegisterToValue
    \/ StepAddToRegister
    \/ StepSetRegisterToRegisterValue
    \/ StepRegistersBitwiseOr
    \/ StepRegistersBitwiseAnd
    \/ StepRegistersBitwiseXor
    \/ StepRegistersSumWithOverflow
    \/ StepSubtractRegisterFromRegisterValue
    \/ StepShiftRegisterBitsRight
    \/ StepSubtractRegisterValueFromRegister
    \/ StepShiftRegisterBitsLeft
    \/ StepSkipIfRegistersNotEqual
    \/ StepSetIndexRegisterToValue
    \/ StepJumpByValue
    \/ StepSetRegisterToRandAndValue
    \/ StepDrawSprite
    \/ StepSkipIfKeyEqualsRegister
    \/ StepSkipIfKeyNotEqualsRegister
    \/ StepSetRegisterToDelayTimerValue
    \/ StepSetDelayTimerToRegisterValue
    \/ StepSetSoundTimerToRegisterValue
    \/ StepSetIndexRegisterToSpriteForRegister
    \/ StepStoreBinaryCodedDecimalAtIndexRegisterValue
    \/ StepAddRegisterToIndexRegister
    \/ StepDumpRegistersToMemoryAtIndexRegister
    \/ StepLoadMemoryToRegistersAtIndexRegister

Next == load_rom \/ Step \/ FrameEnd

Spec == Init /\ [][Next]_vars

-----------------------------------------------------------------------------
(* The decoder on its own: from_opcode applied to every 16-bit opcode *)

DecodeInit ==
    /\ ram = << >>
    /\ stack = << >>
    /\ pc = INITIAL_PC
    /\ registers = [r \in 0..15 |-> 0]
    /\ index_register = 0
    /\ delay_timer = 0
    /\ sound_timer = 0
    /\ screen = << >>
    /\ phase = "constructed"
    /\ i = 0
    /\ result = "None"
    /\ error = NoError
    /\ bell = FALSE
    /\ last = NoStep
    /\ overflow_checks = FALSE
    /\ decode_in \in 0..(U16 - 1)
    /\ decode_out = NoDecode
    /\ timer_in = 0
    /\ updates = 0
    /\ image = << >>
    /\ pending_calls = << >>
    /\ drawing = NoDrawing

Decode ==
    /\ decode_out = NoDecode
    /\ decode_out' = from_opcode(decode_in)
    /\ UNCHANGED <<pc, machine, phase, i, result, error, bell, last,
                   overflow_checks, decode_in, timer_call, image,
                   pending_calls, drawing>>

DecodeNext == Decode

DecodeSpec == DecodeInit /\ [][DecodeNext]_vars

-----------------------------------------------------------------------------
(* update_timers on its own: called again and again on a state whose two   *)
(* timers were started at the same value                                   *)

TimerInit ==
    /\ ram = << >>
    /\ stack = << >>
    /\ pc = INITIAL_PC
    /\ registers = [r \in 0..15 |-> 0]
    /\ index_register = 0
    /\ timer_in \in 0..(U8 - 1)
    /\ delay_timer = timer_in
    /\ sound_timer = timer_in
    /\ screen = << >>
    /\ phase = "constructed"
    /\ i = 0
    /\ result = "None"
    /\ error = NoError
    /\ bell = FALSE
    /\ last = NoStep
    /\ overflow_checks = FALSE
    /\ decode_in = 0
    /\ decode_out = NoDecode
    /\ updates = 0
    /\ image = << >>
    /\ pending_calls = << >>
    /\ drawing = NoDrawing

update_timers ==
    /\ updates < MaxUpdates
    /\ delay_timer' = delay_after_update(delay_timer)
    /\ sound_timer' = sound_after_update(sound_timer)
    /\ bell' = bell_on_update(sound_timer)
    /\ updates' = updates + 1
    /\ UNCHANGED <<ram, stack, pc, registers, index_register, screen, phase,
                   i, result, error, last, overflow_checks, decoder, timer_in,
                   image, pending_calls, drawing>>

TimerNext == update_timers

TimerSpec == TimerInit /\ [][TimerNext]_vars


-----------------------------------------------------------------------------
(* draw on its own: called twice with the same arguments on a display of   *)
(* a given content                                                         *)

\* the top three and the bottom two rows of the grid lit
LitRows == [c \in {0, 1, 2, 30, 31} \X (0..(SCREEN_WIDTH - 1)) |-> 1]

\* display contents: clear, the lit rows, and what one draw leaves on either
Contents ==
    {clear, LitRows}
    \cup {draw(s, x, y, sprite).screen :
            s \in {clear, LitRows}, x \in {0, 3, 61}, y \in {0, 30},
            sprite \in {<<255, 129>>, <<180, 1, 128>>}}

DrawInit ==
    /\ ram = << >>
    /\ stack = << >>
    /\ pc = INITIAL_PC
    /\ registers = [r \in 0..15 |-> 0]
    /\ index_register = 0
    /\ delay_timer = 0
    /\ sound_timer = 0
    /\ screen \in Contents
    /\ phase = "constructed"
    /\ i = 0
    /\ result = "None"
    /\ error = NoError
    /\ bell = FALSE
    /\ last = NoStep
    /\ overflow_checks = FALSE
    /\ decode_in = 0
    /\ decode_out = NoDecode
    /\ timer_in = 0
    /\ updates = 0
    /\ image = << >>
    /\ pending_calls = << >>
    /\ \E x \in DrawXs, y \in DrawYs, sprite \in Sprites :
        drawing = [before |-> screen, reg_x |-> x, reg_y |-> y,
                   sprite |-> sprite, draws |-> 0]

\* self.display.draw(x, y, sprite), at most twice
draw_call ==
    /\ drawing.draws < 2
    /\ screen' = draw(screen, drawing.reg_x, drawing.reg_y,
                      drawing.sprite).screen
    /\ drawing' = [drawing EXCEPT !.draws = @ + 1]
    /\ UNCHANGED <<ram, stack, pc, registers, index_register, delay_timer,
                   sound_timer, phase, i, result, error, bell, last,
                   overflow_checks, decoder, timer_call, image, pending_calls>>

DrawNext == draw_call

DrawSpec == DrawInit /\ [][DrawNext]_vars

-----------------------------------------------------------------------------
(* chip_core.rs: Core::step, the engine that matches on the four nibbles   *)
(* of the two fetched bytes itself, as a function of the state it is       *)
(* called on                                                               *)

\* the engine's state and display as one value
EngineState ==
    [ram |-> ram, stack |-> stack, pc |-> pc, registers |-> registers,
     index_register |-> index_register, delay_timer |-> delay_timer,
     sound_timer |-> sound_timer, screen |-> screen]

\* what a call of step leaves: how it ended, the state, and whether it
\* wrote the bell
Outcome(kind, s, rang) == [kind |-> kind, state |-> s, bell |-> rang]

\* variant of the address operand: only the second byte is taken
core_address_low_byte(n2, b2) == b2

\* ((n2 as u16) << 8) | b2 as u16
core_address(n2, b2) == n2 * 256 + b2

\* the arms of Core::step on the nibbles n1..n4 of the bytes b1, b2; s is the
\* state after pc += 2, at the instruction at instruction_address; n is the
\* byte the random generator yields
core_match(s, instruction_address, b2, n1, n2, n3, n4, checks, n) ==
    LET regs == s.registers
        vx == regs[n2]
        vy == regs[n3]
        Cont(t) == Outcome("Continue", t, FALSE)
        Regs(r) == Cont([s EXCEPT !.registers = r])
        Pc(target) == Cont([s EXCEPT !.pc = target])
    IN  CASE n1 = 0 /\ n2 = 0 /\ n3 = 14 /\ n4 = 0 ->
                Cont([s EXCEPT !.screen = clear])
          [] n1 = 0 /\ n2 = 0 /\ n3 = 14 /\ n4 = 14 ->
                IF s.stack = << >>
                THEN Outcome("Panic", s, FALSE)
                ELSE Cont([s EXCEPT
                            !.pc = s.stack[Len(s.stack)],
                            !.stack = SubSeq(s.stack, 1, Len(s.stack) - 1)])
          [] n1 = 1 ->
                IF instruction_address = core_address(n2, b2)
                THEN Outcome("Halt", s, FALSE)
                ELSE Cont(s)
          [] n1 = 2 ->
                Cont([s EXCEPT !.stack = Append(s.stack, s.pc),
                               !.pc = core_address(n2, b2)])
          [] n1 = 3 -> Pc(IF vx = b2 THEN s.pc + 2 ELSE s.pc)
          [] n1 = 4 -> Pc(IF vx # b2 THEN s.pc + 2 ELSE s.pc)
          [] n1 = 5 /\ n4 = 0 -> Pc(IF vx = vy THEN s.pc + 2 ELSE s.pc)
          [] n1 = 6 -> Regs([regs EXCEPT ![n2] = b2])
          [] n1 = 7 ->
                Regs([regs EXCEPT ![n2] = overflowing_add(vx, b2).value])
          [] n1 = 8 /\ n4 = 0 -> Regs([regs EXCEPT ![n2] = vy])
          [] n1 = 8 /\ n4 = 1 -> Regs([regs EXCEPT ![n2] = BitOr(vx, vy)])
          [] n1 = 8 /\ n4 = 2 -> Regs([regs EXCEPT ![n2] = BitAnd(vx, vy)])
          [] n1 = 8 /\ n4 = 3 -> Regs([regs EXCEPT ![n2] = BitXor(vx, vy)])
          [] n1 = 8 /\ n4 = 4 ->
                LET r == overflowing_add(vx, vy)
                    regs1 == [regs EXCEPT ![n2] = r.value]
                IN  Regs([regs1 EXCEPT ![VF] = IF r.overflow THEN 1 ELSE 0])
          [] n1 = 8 /\ n4 = 5 ->
                LET r == overflowing_sub(vx, vy)
                    regs1 == [regs EXCEPT ![n2] = r.value]
                IN  Regs([regs1 EXCEPT ![VF] = IF r.overflow THEN 0 ELSE 1])
          [] n1 = 8 /\ n4 = 6 ->
                LET regs1 == [regs EXCEPT ![VF] = vx % 2]
                IN  Regs([regs1 EXCEPT ![n2] = regs1[n2] \div 2])
          [] n1 = 8 /\ n4 = 7 ->
                LET r == overflowing_sub(vy, vx)
                    regs1 == [regs EXCEPT ![n2] = r.value]
                IN  Regs([regs1 EXCEPT ![VF] = IF r.overflow THEN 0 ELSE 1])
          [] n1 = 8 /\ n4 = 14 ->
                LET regs1 == [regs EXCEPT ![VF] = vx \div 128]
                IN  Regs([regs1 EXCEPT ![n2] = (regs1[n2] * 2) % U8])
          [] n1 = 9 /\ n4 = 0 -> Pc(IF vx # vy THEN s.pc + 2 ELSE s.pc)
          [] n1 = 10 ->
                Cont([s EXCEPT !.index_register = core_address(n2, b2)])
          [] n1 = 11 -> Pc(regs[0] + core_address(n2, b2))
          [] n1 = 12 -> Regs([regs EXCEPT ![n2] = BitAnd(n, b2)])
          [] n1 = 13 ->
                LET sl == sprite_slice(s.index_register, n4, checks)
                    d == draw(s.screen, vx, vy, sl.bytes)
                IN  IF sl.ok
                    THEN Cont([s EXCEPT
                                !.screen = d.screen,
                                !.registers = [regs EXCEPT ![VF] =
                                    IF d.did_switch THEN 1 ELSE 0]])
                    ELSE Outcome("Panic", s, FALSE)
          [] n1 = 14 /\ n3 = 9 /\ n4 = 14 -> Outcome("Panic", s, FALSE)
          [] n1 = 14 /\ n3 = 10 /\ n4 = 1 -> Outcome("Panic", s, FALSE)
          [] n1 = 15 /\ n3 = 0 /\ n4 = 7 ->
                LET delay == delay_after_update(s.delay_timer)
                IN  Outcome("Continue",
                            [s EXCEPT
                                !.delay_timer = delay,
                                !.sound_timer =
                                    sound_after_update(s.sound_timer),
                                !.registers = [regs EXCEPT ![n2] = delay]],
                            bell_on_update(s.sound_timer))
          [] n1 = 15 /\ n3 = 1 /\ n4 = 5 -> Cont([s EXCEPT !.delay_timer = vx])
          [] n1 = 15 /\ n3 = 1 /\ n4 = 8 -> Cont([s EXCEPT !.sound_timer = vx])
          [] n1 = 15 /\ n3 = 2 /\ n4 = 9 ->
                Cont([s EXCEPT !.index_register = FONT_BASE + vx * 5])
          [] n1 = 15 /\ n3 = 3 /\ n4 = 3 ->
                LET w == store_digits(s.ram, s.index_register,
                                      <<vx \div 100, (vx \div 10) % 10,
                                        vx % 10>>, 1)
                IN  Outcome(IF w.ok THEN "Continue" ELSE "Panic",
                            [s EXCEPT !.ram = w.ram], FALSE)
          [] n1 = 15 /\ n3 = 1 /\ n4 = 14 ->
                LET sum == add_u16(s.index_register, vx)
                IN  IF sum.overflow /\ checks
                    THEN Outcome("Panic", s, FALSE)
                    ELSE Cont([s EXCEPT !.index_register = sum.value])
          [] n1 = 15 /\ n3 = 5 /\ n4 = 5 ->
                LET w == dump_registers(s.ram, regs, s.index_register, 0, n2,
                                        checks)
                IN  Outcome(IF w.ok THEN "Continue" ELSE "Panic",
                            [s EXCEPT !.ram = w.ram], FALSE)
          [] n1 = 15 /\ n3 = 6 /\ n4 = 5 ->
                LET w == load_registers(s.ram, regs, s.index_register, 0, n2,
                                        checks)
                IN  Outcome(IF w.ok THEN "Continue" ELSE "Panic",
                            [s EXCEPT !.registers = w.registers], FALSE)
          [] OTHER -> Outcome("Err", s, FALSE)

\* Core::step on the state s: the fetch of b1 and b2 (a panic when either is
\* outside ram), pc += 2, then the match on the nibbles
core_step(s, checks, n) ==
    IF s.pc + 1 >= TOTAL_RAM_SIZE
    THEN Outcome("Panic", s, FALSE)
    ELSE LET b1 == ReadRam(s.ram, s.pc)
             b2 == ReadRam(s.ram, s.pc + 1)
         IN  core_match([s EXCEPT !.pc = s.pc + 2], s.pc, b2,
                        b1 \div 16, b1 % 16, b2 \div 16, b2 % 16, checks, n)

-----------------------------------------------------------------------------
(* Properties *)

\* the step about to be taken executes the instruction `tag`
About(tag) == Executing(tag)

\* the last step executed opcode `op` and returned Continue
Did(op) == last.opcode = op /\ result = "Continue"

\* C1: a direct jump 1nnn at address a with nnn # a sets pc to nnn and
\* changes nothing else of the machine.
C1_JumpSetsPc ==
    [][(About("Jump") /\ instruction.address # pc)
        => (pc' = instruction.address /\ UNCHANGED machine)]_vars

\* the image is exactly the two bytes 0x12 0x00 and no step has run yet
SelfJumpLoaded ==
    /\ phase = "batch"
    /\ last = NoStep
    /\ DOMAIN ram = {INITIAL_PC, INITIAL_PC + 1}
    /\ RamAt(INITIAL_PC) = 18
    /\ RamAt(INITIAL_PC + 1) = 0

\* C2: the two-byte program 0x12 0x00 at the origin ends the run loop in
\* the Halted state after one step, and memory, registers, index register,
\* stack, timers and display are as they were right after load.
C2_SelfJumpHalts ==
    [][SelfJumpLoaded
        => (result' = "Halt" /\ phase' = "exited" /\ last'.addr = INITIAL_PC
            /\ UNCHANGED machine)]_vars

C2_Witness ==
    /\ result = "Halt"
    /\ phase = "exited"
    /\ last = [addr |-> INITIAL_PC, opcode |-> OpNNN(1, INITIAL_PC)]
    /\ DOMAIN ram = {INITIAL_PC, INITIAL_PC + 1}

\* C3: 00EE with an empty call stack puts the engine in Faulted with an
\* EmptyStackReturn error reported to the caller of the run loop (run
\* returns), distinct from an unrecognized opcode; the process is not
\* aborted.
C3_EmptyReturnFaults ==
    [][(About("ReturnFromSubroutine") /\ stack = << >>)
        => (result' = "Err" /\ error'.kind = "EmptyStackReturn"
            /\ phase' = "exited")]_vars

\* the rows of the instruction table, read off the opcode's hex digits
InTable(op) ==
    LET hi == op \div 4096
        lo == op % 16
        low_byte == op % 256
    IN  \/ op \in {224, 238}
        \/ hi \in {1, 2, 3, 4, 6, 7, 10, 11, 12, 13}
        \/ hi \in {5, 9} /\ lo = 0
        \/ hi = 8 /\ lo \in {0, 1, 2, 3, 4, 5, 6, 7, 14}
        \/ hi = 14 /\ low_byte \in {158, 161}
        \/ hi = 15 /\ low_byte \in {7, 21, 24, 30, 41, 51, 85, 101}

Decoded == decode_out # NoDecode

\* C4: decode succeeds exactly on the opcodes of the instruction table, and
\* fails on every other opcode with UnknownOpcode carrying that opcode.
C4_DecodeTotalOnTable ==
    Decoded =>
        /\ decode_out.ok <=> InTable(decode_in)
        /\ ~decode_out.ok => decode_out.err = UnknownOpcode(decode_in)

C4_Witness ==
    /\ Decoded
    /\ decode_in = Op(5, 0, 1, 8)
    /\ decode_out = Err(UnknownOpcode(Op(5, 0, 1, 8)))

\* the opcode pattern of each instruction tag, operand digits zero
TagBase ==
    [ClearScreen |-> 224, ReturnFromSubroutine |-> 238,
     Jump |-> 4096, Call |-> 8192,
     SkipIfEqualByte |-> 12288, SkipIfNotEqualByte |-> 16384,
     SkipIfRegistersEqual |-> 20480,
     SetRegisterToValue |-> 24576, AddToRegister |-> 28672,
     SetRegisterToRegisterValue |-> 32768, RegistersBitwiseOr |-> 32769,
     RegistersBitwiseAnd |-> 32770, RegistersBitwiseXor |-> 32771,
     RegistersSumWithOverflow |-> 32772,
     SubtractRegisterFromRegisterValue |-> 32773,
     ShiftRegisterBitsRight |-> 32774,
     SubtractRegisterValueFromRegister |-> 32775,
     ShiftRegisterBitsLeft |-> 32782,
     SkipIfRegistersNotEqual |-> 36864,
     SetIndexRegisterToValue |-> 40960, JumpByValue |-> 45056,
     SetRegisterToRandAndValue |-> 49152, DrawSprite |-> 53248,
     SkipIfKeyEqualsRegister |-> 57502, SkipIfKeyNotEqualsRegister |-> 57505,
     SetRegisterToDelayTimerValue |-> 61447,
     SetDelayTimerToRegisterValue |-> 61461,
     SetSoundTimerToRegisterValue |-> 61464,
     SetIndexRegisterToSpriteForRegister |-> 61481,
     StoreBinaryCodedDecimalAtIndexRegisterValue |-> 61491,
     AddRegisterToIndexRegister |-> 61470,
     DumpRegistersToMemoryAtIndexRegister |-> 61525,
     LoadMemoryToRegistersAtIndexRegister |-> 61541]

Field(instr, name, weight) ==
    IF name \in DOMAIN instr THEN instr[name] * weight ELSE 0

\* the opcode rebuilt from an instruction's tag and operands
Encode(instr) ==
    TagBase[instr.tag]
    + Field(instr, "address", 1) + Field(instr, "value", 1)
    + Field(instr, "sprite", 1) + Field(instr, "register", 256)
    + Field(instr, "register_x", 256) + Field(instr, "register_y", 16)

\* the operand fields an opcode of the table carries, by its family
OperandsOf(op) ==
    LET hi == op \div 4096 IN
    CASE op \in {224, 238} -> {}
      [] hi \in {1, 2, 10, 11} -> {"address"}
      [] hi \in {3, 4, 6, 7, 12} -> {"register", "value"}
      [] hi \in {5, 9} -> {"register_x", "register_y"}
      [] hi = 8 /\ op % 16 \in {6, 14} -> {"register"}
      [] hi = 8 -> {"register_x", "register_y"}
      [] hi = 13 -> {"register_x", "register_y", "sprite"}
      [] OTHER -> {"register"}

\* a shift instruction keeps no y: that digit cannot be recovered
YDropped(instr) ==
    instr.tag \in {"ShiftRegisterBitsRight", "ShiftRegisterBitsLeft"}

\* C5: a decoded instruction carries exactly the operand fields of its
\* opcode (x = bits 8..11, y = bits 4..7, address = low 12 bits, immediate =
\* low 8 bits, sprite height = low 4 bits), and re-encoding it gives the
\* opcode back, up to the y digit of a shift, which is not kept.
C5_DecodeRoundTrip ==
    (Decoded /\ decode_out.ok) =>
        LET instr == decode_out.instr
            op == decode_in
            has(name) == name \in DOMAIN instr
        IN  /\ DOMAIN instr = OperandsOf(op) \cup {"tag"}
            /\ has("register") => instr.register = (op \div 256) % 16
            /\ has("register_x") => instr.register_x = (op \div 256) % 16
            /\ has("register_y") => instr.register_y = (op \div 16) % 16
            /\ has("address") => instr.address = op % 4096
            /\ has("value") => instr.value = op % 256
            /\ has("sprite") => instr.sprite = op % 16
            /\ Encode(instr) =
                   IF YDropped(instr) THEN op - 16 * ((op \div 16) % 16)
                   ELSE op

C5_Witness ==
    /\ Decoded
    /\ decode_in = Op(13, 1, 2, 3)
    /\ decode_out = Ok(IDraw(1, 2, 3))

\* C6: when a step faults on an unrecognized opcode fetched at address a,
\* the step's only change to the machine is pc = a + 2.
C6_FaultOnlyAdvancesPc ==
    [][(FetchOk /\ ~decoded.ok)
        => (result' = "Err" /\ error' = UnknownOpcode(opcode)
            /\ pc' = pc + 2 /\ UNCHANGED machine)]_vars

C6_Witness ==
    /\ result = "Err"
    /\ error = UnknownOpcode(0)
    /\ pc = last.addr + 2
    /\ registers[0] = 255
    /\ registers[1] = 128

\* C7: once a step has returned Halt or an error nothing happens any more:
\* no further step, timer update or display change, also when the terminal
\* step is in the middle or at the end of a frame's batch.
C7_TerminalAbsorbing ==
    [][(result \in {"Halt", "Err"}) => UNCHANGED vars]_vars

C7_Witness ==
    /\ result = "Halt"
    /\ phase = "exited"
    /\ i = INSTRUCTIONS_PER_FRAME - 1
    /\ delay_timer = 2
    /\ sound_timer = 2

\* C8: after ADD 8xy4 with a = Vx and b = Vy before it, VF = 1 if
\* a + b > 255 and 0 otherwise, and Vx = (a + b) mod 256 when x # 15.
C8_AddFlagAndSum ==
    [][About("RegistersSumWithOverflow")
        => LET x == instruction.register_x
               a == registers[x]
               b == registers[instruction.register_y]
           IN  (/\ registers'[VF] = (IF a + b > 255 THEN 1 ELSE 0)
                /\ (x # VF => registers'[x] = (a + b) % 256))]_vars

C8_Witness ==
    /\ Did(Op(8, VF, 1, 4))
    /\ registers[1] = 1
    /\ registers[VF] = 1

\* C9: after SUB 8xy5 with a = Vx and b = Vy before it, VF = 1 exactly when
\* a >= b, and Vx = (a - b) mod 256 when x # 15.
C9_SubFlagAndDifference ==
    [][About("SubtractRegisterFromRegisterValue")
        => LET x == instruction.register_x
               a == registers[x]
               b == registers[instruction.register_y]
           IN  (/\ registers'[VF] = (IF a >= b THEN 1 ELSE 0)
                /\ (x # VF => registers'[x] = (a - b) % 256))]_vars

C9_Witness ==
    /\ Did(Op(8, 0, 1, 5))
    /\ registers[1] = 128
    /\ registers[0] = 129
    /\ registers[VF] = 0

\* C10: after reverse SUB 8xy7 with a = Vx and b = Vy before it, VF = 1
\* exactly when b >= a, and Vx = (b - a) mod 256 when x # 15.
C10_ReverseSubFlagAndDifference ==
    [][About("SubtractRegisterValueFromRegister")
        => LET x == instruction.register_x
               a == registers[x]
               b == registers[instruction.register_y]
           IN  (/\ registers'[VF] = (IF b >= a THEN 1 ELSE 0)
                /\ (x # VF => registers'[x] = (b - a) % 256))]_vars

C10_Witness ==
    /\ Did(Op(8, 0, 1, 7))
    /\ registers[1] = 1
    /\ registers[0] = 129
    /\ registers[VF] = 0

\* C11: after SHR 8xy6 VF is the least-significant bit Vx held before the
\* shift, and after SHL 8xyE VF is the most-significant bit Vx held before
\* the shift, for every x in 0..15, x = 15 included.
C11_ShiftFlagIsBitShiftedOut ==
    [][(/\ About("ShiftRegisterBitsRight")
            => registers'[VF] = registers[instruction.register] % 2)
       /\ (About("ShiftRegisterBitsLeft")
            => registers'[VF] = registers[instruction.register] \div 128)]_vars

\* C12: ADD-immediate 7xkk sets Vx to (Vx + kk) mod 256 and leaves every
\* other register as it was, VF included when x # 15, also when the sum
\* exceeds 255.
C12_AddImmediateNoFlag ==
    [][About("AddToRegister")
        => LET x == instruction.register
               kk == instruction.value
           IN  registers' = [registers EXCEPT ![x] = (registers[x] + kk) % 256]]_vars

C12_Witness ==
    /\ Did(OpXKK(7, 0, 255))
    /\ registers[0] = 127
    /\ registers[1] = 128
    /\ registers[VF] = 0

\* C13: for every byte v held in Vx, after Fx33 the cells at index,
\* index + 1, index + 2 hold digits d0, d1, d2, each in 0..9, with
\* d0 * 100 + d1 * 10 + d2 = v, and the index register and all registers
\* are unchanged (the three cells being cells of memory).
C13_BcdDigits ==
    [][(About("StoreBinaryCodedDecimalAtIndexRegisterValue")
        /\ index_register + 2 < TOTAL_RAM_SIZE)
        => LET v == registers[instruction.register]
               d0 == ReadRam(ram', index_register)
               d1 == ReadRam(ram', index_register + 1)
               d2 == ReadRam(ram', index_register + 2)
           IN  (/\ {d0, d1, d2} \subseteq 0..9
                /\ d0 * 100 + d1 * 10 + d2 = v
                /\ result' = "Continue"
                /\ index_register' = index_register
                /\ registers' = registers)]_vars

C13_Witness ==
    /\ Did(Op(15, 0, 3, 3))
    /\ registers[0] = 219
    /\ index_register = 768
    /\ RamAt(768) = 2
    /\ RamAt(769) = 1
    /\ RamAt(770) = 9

\* the image `prog` is in memory at the origin
Loaded(prog) ==
    \A k \in 1..(2 * Len(prog)) : RamAt(INITIAL_PC + k - 1) = RomBytes(prog)[k]

\* the program has run its Len(prog) instructions, one after the other
RanThrough(prog) ==
    /\ Loaded(prog)
    /\ result = "Continue"
    /\ i = Len(prog)
    /\ pc = INITIAL_PC + 2 * Len(prog)

\* C14: for any index register value nnn and any x: writing values into
\* V0..Vx, executing Fx55, clearing the registers, executing Fx65 restores
\* V0..Vx and leaves the index register equal to nnn; neither instruction
\* fails.
C14_DumpLoadRoundTrip ==
    \A nnn \in {768, 4095}, x \in {0, 1} :
        Loaded(RoundTrip(nnn, x))
            => /\ result # "Panic"
               /\ RanThrough(RoundTrip(nnn, x))
                    => /\ \A k \in 0..x : registers[k] = 255 - k
                       /\ index_register = nnn

\* C15: Fx55 writes exactly the x + 1 cells memory[I..I+x] with
\* memory[I+k] = Vk and changes no other cell and no register; Fx65 sets
\* exactly V0..Vx with Vk = memory[I+k] and leaves the other registers and
\* memory unchanged; neither changes the index register (the cells I..I+x
\* being cells of memory).
C15_DumpLoadFrame ==
    [][(/\ (About("DumpRegistersToMemoryAtIndexRegister")
             /\ index_register + instruction.register < TOTAL_RAM_SIZE)
            => LET x == instruction.register
                   I == index_register
               IN  /\ \A a \in 0..(TOTAL_RAM_SIZE - 1) :
                        ReadRam(ram', a) =
                            IF a \in I..(I + x) THEN registers[a - I]
                            ELSE RamAt(a)
                   /\ registers' = registers
                   /\ index_register' = I)
       /\ ((About("LoadMemoryToRegistersAtIndexRegister")
             /\ index_register + instruction.register < TOTAL_RAM_SIZE)
            => LET x == instruction.register
                   I == index_register
               IN  /\ registers' = [k \in 0..15 |->
                                       IF k <= x THEN RamAt(I + k)
                                       ELSE registers[k]]
                   /\ ram' = ram
                   /\ index_register' = I)]_vars

C15_Witness ==
    /\ RanThrough(RoundTrip(768, 1))
    /\ Did(Op(15, 1, 6, 5))
    /\ registers[0] = 255
    /\ registers[1] = 254
    /\ registers[2] = 0
    /\ RamAt(768) = 255
    /\ RamAt(769) = 254
    /\ 770 \notin DOMAIN ram

\* the sprite rows the draw step about to be taken hands to draw
SpriteOf == sprite_slice(index_register, instruction.sprite, overflow_checks)

\* the step about to be taken is a draw whose sprite slice is inside memory
AboutDraw == About("DrawSprite") /\ SpriteOf.ok

DrawX == registers[instruction.register_x]

DrawY == registers[instruction.register_y]

\* two displays hold the same pixels
SameScreen(s1, s2) ==
    \A c \in DOMAIN s1 \cup DOMAIN s2 :
        ReadScreen(s1, c[1], c[2]) = ReadScreen(s2, c[1], c[2])

\* the step about to be taken is the second of two draws in a row of the
\* same sprite at the same coordinates, the first on a clear display
SecondDraw ==
    /\ AboutDraw
    /\ last = [addr |-> pc - 2, opcode |-> opcode]
    /\ result = "Continue"
    /\ SameScreen(screen, draw(clear, DrawX, DrawY, SpriteOf.bytes).screen)

\* the second draw leaves every pixel the first draw set cleared again
ClearedAgain ==
    \A c \in DOMAIN screen :
        screen[c] = 1 => ReadScreen(screen', c[1], c[2]) = 0

\* C16 as stated: for every (x, y) and every sprite with at least one
\* non-zero row, drawing it twice in a row on an initially clear display
\* leaves every pixel the first draw set cleared again, and the second draw
\* reports collision = true.
C16_DrawTwiceCollides ==
    [][(SecondDraw /\ \E k \in DOMAIN SpriteOf.bytes : SpriteOf.bytes[k] # 0)
        => (ClearedAgain /\ registers'[VF] = 1)]_vars

\* C16 as amended: drawing a sprite twice in a row on an initially clear
\* display leaves every pixel the first draw set cleared again, and the
\* second draw reports collision = true exactly when the first draw set at
\* least one pixel.
C16_DrawTwiceClears ==
    [][SecondDraw
        => (/\ ClearedAgain
            /\ registers'[VF] = 1 <=> \E c \in DOMAIN screen : screen[c] = 1
            /\ registers'[VF] \in {0, 1})]_vars

C16_Witness ==
    /\ Did(Op(13, 0, 1, 2))
    /\ pc = INITIAL_PC + 10
    /\ registers[0] = 60
    /\ registers[1] = 31
    /\ registers[VF] = 1
    /\ RamAt(SpriteData) = 255
    /\ DOMAIN screen = {<<31, col>> : col \in 60..63}
    /\ \A c \in DOMAIN screen : screen[c] = 0

\* bit b (0 = most significant) of row r of the sprite is 1
Lit(sprite, r, b) ==
    /\ r \in 0..(Len(sprite) - 1)
    /\ b \in 0..7
    /\ (sprite[r + 1] \div (2 ^ (7 - b))) % 2 = 1

\* the draw step toggles exactly the cells whose bit is lit, the sprite's
\* origin being column x0, row y0
TogglesFrom(x0, y0) ==
    \A row \in 0..(SCREEN_HEIGHT - 1), col \in 0..(SCREEN_WIDTH - 1) :
        ReadScreen(screen', row, col) =
            IF Lit(SpriteOf.bytes, row - y0, col - x0)
            THEN 1 - ScreenAt(row, col)
            ELSE ScreenAt(row, col)

\* C17 as stated: for every x and y in 0..255 draw toggles exactly the cells
\* at column x + b, row y + r whose bit is 1 and that lie inside the 64x32
\* grid; cells outside are skipped, never wrapped, so a draw whose origin
\* has x >= 64 or y >= 32 changes no cell.
C17_DrawClipsFromOrigin ==
    [][AboutDraw => TogglesFrom(DrawX, DrawY)]_vars

\* C17 as amended: with x0 = x mod 64 and y0 = y mod 32, draw toggles
\* exactly the cells at column x0 + b, row y0 + r whose bit is 1 and that
\* lie inside the grid; cells past the right or bottom edge are skipped,
\* never wrapped.
C17_DrawClipsFromWrappedOrigin ==
    [][AboutDraw
        => TogglesFrom(DrawX % SCREEN_WIDTH, DrawY % SCREEN_HEIGHT)]_vars

C17_Witness ==
    /\ Did(Op(13, 0, 1, 3))
    /\ pc = INITIAL_PC + 8
    /\ registers[0] = 200
    /\ registers[1] = 30
    /\ RamAt(SpriteData) = 180
    /\ {c \in DOMAIN screen : screen[c] = 1}
            = {<<30, 8>>, <<30, 10>>, <<30, 11>>, <<30, 13>>, <<31, 15>>}

\* C18: the draw of Dxyn reports a collision exactly when a cell went from
\* 1 to 0 during it, and then VF = 1, otherwise VF = 0, whatever VF held
\* before, x or y being 15 included; no other register changes.
C18_CollisionFlag ==
    [][AboutDraw
        => LET collided ==
                   \E c \in DOMAIN screen :
                       screen[c] = 1 /\ ReadScreen(screen', c[1], c[2]) = 0
           IN  registers' =
                   [registers EXCEPT ![VF] = IF collided THEN 1 ELSE 0]]_vars

C18_Witness ==
    /\ Did(Op(13, VF, 1, 2))
    /\ pc = INITIAL_PC + 10
    /\ RamAt(INITIAL_PC + 3) = 1
    /\ RamAt(SpriteData) = 255
    /\ registers[VF] = 1
    /\ registers[1] = 0
    /\ ScreenAt(0, 0) = 1
    /\ ScreenAt(0, 1) = 0
    /\ ScreenAt(0, 8) = 1

\* C19: with both timers started at n, after k updates each timer holds
\* n - k while that is positive and 0 from then on: every update lowers a
\* non-zero timer by exactly 1, after n updates both timers are 0, and
\* further updates leave them at 0.
C19_TimersDecayToZero ==
    LET left == IF timer_in > updates THEN timer_in - updates ELSE 0
    IN  delay_timer = left /\ sound_timer = left

C19_Witness ==
    /\ timer_in = 255
    /\ updates = 257
    /\ delay_timer = 0
    /\ sound_timer = 0

\* a call of update_timers: at the end of a frame, and inside Fx07
UpdatingTimers ==
    phase = "frame_end" \/ About("SetRegisterToDelayTimerValue")

C21_TimersChangeOncePerFrame ==
    [][(/\ phase = "frame_end"
            => (/\ i = INSTRUCTIONS_PER_FRAME
                /\ delay_timer' = (IF delay_timer > 0 THEN delay_timer - 1
                                   ELSE 0)
                /\ sound_timer' = (IF sound_timer > 0 THEN sound_timer - 1
                                   ELSE 0)
                /\ i' = 0
                /\ phase' = "batch")
        /\ (phase = "batch" /\ phase' = "frame_end")
            => i' = INSTRUCTIONS_PER_FRAME
        /\ (Fetching /\ ~About("SetDelayTimerToRegisterValue"))
            => delay_timer' = delay_timer
        /\ (Fetching /\ ~About("SetSoundTimerToRegisterValue"))
            => sound_timer' = sound_timer)]_vars

\* C22: after Fx07, Vx is the value the delay timer held right before the
\* instruction, both timers are unchanged and no audible signal is
\* emitted.
C22_ReadDelayTimer ==
    [][About("SetRegisterToDelayTimerValue")
        => (/\ registers' = [registers EXCEPT
                                ![instruction.register] = delay_timer]
            /\ delay_timer' = delay_timer
            /\ sound_timer' = sound_timer
            /\ ~bell')]_vars

\* C23: a call 2nnn at address a pushes a + 2 and sets pc to nnn; a return
\* 00EE with a non-empty stack removes the address pushed last and sets pc
\* to it; neither changes anything else of the machine.  (Hence a call and
\* its matching return resume at a + 2 with the stack as before the call.)
C23_CallReturnLifo ==
    [][(/\ About("Call")
            => (/\ stack' = stack \o <<pc + 2>>
                /\ pc' = instruction.address
                /\ result' = "Continue"
                /\ UNCHANGED <<ram, registers, index_register, delay_timer,
                               sound_timer, screen>>)
        /\ (About("ReturnFromSubroutine") /\ stack # << >>)
            => (/\ stack = stack' \o <<pc'>>
                /\ result' = "Continue"
                /\ UNCHANGED <<ram, registers, index_register, delay_timer,
                               sound_timer, screen>>))]_vars

\* the inner return of two nested calls: back after the inner call, the
\* outer return address still on the stack
C23_Witness ==
    /\ Did(Op(0, 0, 14, 14))
    /\ last.addr = INITIAL_PC + 8
    /\ pc = INITIAL_PC + 6
    /\ stack = <<INITIAL_PC + 2>>
    /\ RamAt(INITIAL_PC + 4) * 256 + RamAt(INITIAL_PC + 5)
            = OpNNN(2, INITIAL_PC + 8)

\* the condition of the skip about to be executed
SkipCondition ==
    CASE instruction.tag = "SkipIfEqualByte" ->
            registers[instruction.register] = instruction.value
      [] instruction.tag = "SkipIfNotEqualByte" ->
            registers[instruction.register] # instruction.value
      [] instruction.tag = "SkipIfRegistersEqual" ->
            registers[instruction.register_x]
                = registers[instruction.register_y]
      [] instruction.tag = "SkipIfRegistersNotEqual" ->
            registers[instruction.register_x]
                # registers[instruction.register_y]

AboutSkip ==
    \/ About("SkipIfEqualByte")
    \/ About("SkipIfNotEqualByte")
    \/ About("SkipIfRegistersEqual")
    \/ About("SkipIfRegistersNotEqual")

\* C24: a conditional skip at address a leaves pc = a + 4 when its
\* condition holds (Vx = kk for 3xkk, Vx # kk for 4xkk, Vx = Vy for 5xy0,
\* Vx # Vy for 9xy0) and pc = a + 2 otherwise, and changes no register,
\* memory cell, stack entry or timer.
C24_SkipAdvancesPc ==
    [][AboutSkip
        => (/\ pc' = (IF SkipCondition THEN pc + 4 ELSE pc + 2)
            /\ result' = "Continue"
            /\ UNCHANGED machine)]_vars

C24_Witness ==
    /\ Did(Op(9, 0, 1, 0))
    /\ last.addr = INITIAL_PC + 4
    /\ pc = INITIAL_PC + 8
    /\ registers[0] = 128
    /\ registers[1] = 255

\* C25: for every index register value I and every Vx, Fx1E sets the index
\* register to (I + Vx) mod 65536 without failing and leaves every
\* register unchanged, VF included.
C25_AddToIndexWraps ==
    [][About("AddRegisterToIndexRegister")
        => (/\ index_register' =
                    (index_register + registers[instruction.register]) % U16
            /\ result' = "Continue"
            /\ registers' = registers)]_vars

\* addresses 0x50..0x9F hold the font table written at construction
FontIntact ==
    \A k \in 1..Len(FONT_DATA) : RamAt(FONT_BASE + k - 1) = FONT_DATA[k]

\* C26: after Fx29 the index register is 0x50 + 5 * Vx; for Vx in 0..15 on
\* a machine whose font range was not overwritten, the cells
\* memory[index..index+4] are the five bytes of the glyph of Vx in the font
\* table.
C26_FontLookup ==
    [][About("SetIndexRegisterToSpriteForRegister")
        => LET v == registers[instruction.register]
           IN  (/\ index_register' = 80 + 5 * v
                /\ (v \in 0..15 /\ FontIntact)
                    => \A k \in 0..4 :
                        ReadRam(ram', index_register' + k)
                            = FONT_DATA[5 * v + k + 1])]_vars

C26_Witness ==
    /\ Did(Op(15, 0, 2, 9))
    /\ registers[0] = 15
    /\ index_register = 155
    /\ <<RamAt(155), RamAt(156), RamAt(157), RamAt(158), RamAt(159)>>
            = <<240, 128, 240, 128, 128>>

\* C27: in every reachable state the addresses 0x50..0x9F hold the font
\* table written at construction: no instruction overwrites a cell of that
\* range.
C27_FontNeverOverwritten == FontIntact

\* C30: Bnnn sets pc to V0 + nnn, the exact sum, does not halt the engine
\* even when the sum is the address of the Bnnn itself, and changes no
\* register, memory cell or stack entry.
C30_JumpByValue ==
    [][About("JumpByValue")
        => (/\ pc' = registers[0] + instruction.address
            /\ result' = "Continue"
            /\ phase' # "exited"
            /\ UNCHANGED machine)]_vars

C30_Witness ==
    /\ Did(OpNNN(11, 4095))
    /\ registers[0] = 255
    /\ pc = 4350

\* C28: for every image of length L <= 3584, after load memory[0x200 + k]
\* is image byte k for k in 0..L-1, every other cell is as construction
\* left it (the font range included), and pc, registers, stack, index
\* register and timers keep their construction values.
C28_LoadCopiesImage ==
    [][(phase = "constructed" /\ Len(image') <= 3584)
        => LET L == Len(image')
           IN  (/\ phase' = "batch"
                /\ DOMAIN ram' = 512..(512 + L - 1)
                /\ \A k \in 0..(L - 1) : ram'[512 + k] = image'[k + 1]
                /\ FontIntact'
                /\ pc' = 512
                /\ registers' = [r \in 0..15 |-> 0]
                /\ stack' = << >>
                /\ index_register' = 0
                /\ delay_timer' = 0
                /\ sound_timer' = 0)]_vars

C28_Witness ==
    /\ phase = "batch"
    /\ last = NoStep
    /\ Len(image) = 3584
    /\ RamAt(4095) = 255
    /\ RamAt(4094) = 0
    /\ pc = 512

\* the step about to be taken executes Ex9E or ExA1
AboutKeyTest ==
    About("SkipIfKeyEqualsRegister") \/ About("SkipIfKeyNotEqualsRegister")

\* the key-not-pressed policy: Ex9E never skips, ExA1 always skips, the
\* engine keeps running and nothing else changes
KeyNotPressedPolicy ==
    /\ pc' = (IF instruction.tag = "SkipIfKeyNotEqualsRegister"
              THEN pc + 4 ELSE pc + 2)
    /\ result' = "Continue"
    /\ UNCHANGED machine

\* the fault policy: the step returns an UnsupportedInstruction error and
\* run returns to its caller
UnsupportedPolicy ==
    /\ result' = "Err"
    /\ error'.kind = "UnsupportedInstruction"
    /\ phase' = "exited"

\* C29: a key-test instruction Ex9E or ExA1 ends its step with a defined
\* outcome, the key-not-pressed skip decision or an UnsupportedInstruction
\* fault reported to the caller; the step never aborts the process.
C29_KeyTestDefined ==
    [][AboutKeyTest
        => (/\ KeyNotPressedPolicy \/ UnsupportedPolicy
            /\ result' # "Panic"
            /\ phase' # "panicked")]_vars


\* C31: the engine that matches on the nibbles itself (Core::step) and the
\* one that decodes first (Interpreter::step over from_opcode) cannot be told
\* apart: from the same state and display, for every opcode other than Cxkk,
\* the step of the one ends the way the step of the other does (Continue,
\* Halt, the error return, or the abort of the process) and leaves the same
\* state, display and bell.
C31_EnginesEquivalent ==
    [][(Fetching /\ Nibble1(opcode) # 12) =>
        \A n \in {0, 255} :
            LET out == core_step(EngineState, overflow_checks, n)
            IN  /\ result' = out.kind
                /\ EngineState' = out.state
                /\ bell' = out.bell]_vars

\* a call was executed: the return address is on the stack and pc is at the
\* subroutine
C31_Witness ==
    /\ Did(OpNNN(2, INITIAL_PC + 4))
    /\ stack = <<INITIAL_PC + 2>>
    /\ pc = INITIAL_PC + 4


\* the run loop has not been left: a step, or the frame's end, comes next
Running == phase \in {"batch", "frame_end"}

\* C32: in every reachable state in which the engine is running, the two
\* addresses the next fetch reads, pc and pc + 1, are inside the 4096 bytes
\* of ram: no step reads an instruction byte outside memory.
C32_FetchInBounds ==
    Running => (pc \in 0..(TOTAL_RAM_SIZE - 1)
                /\ pc + 1 \in 0..(TOTAL_RAM_SIZE - 1))


\* C33: in every reachable state the stack is the list, oldest first, of the
\* return addresses (the call's address + 2) of the calls executed and not
\* yet returned from: it is as deep as calls minus returns, nothing but a
\* call or a return changes it, and a call is never refused for the depth
\* of the stack, whatever it is.
C33_StackIsPendingCalls ==
    /\ stack = [k \in 1..Len(pending_calls) |-> pending_calls[k] + 2]
    /\ (last # NoStep /\ Nibble1(last.opcode) = 2) => result = "Continue"

\* a call made with 16 return addresses already on the stack
C33_Witness ==
    /\ Did(OpNNN(2, INITIAL_PC))
    /\ Len(stack) = 17
    /\ \A k \in 1..17 : stack[k] = INITIAL_PC + 2
    /\ pc = INITIAL_PC


\* C34: draw undoes itself: on every display content, for every coordinate
\* pair and every sprite, two draws in a row of the same sprite at the same
\* coordinates leave the display with exactly the content it had before the
\* first, and after each draw every cell holds 0 or 1.
C34_DrawIsInvolution ==
    /\ drawing.draws = 2 => SameScreen(screen, drawing.before)
    /\ drawing.draws >= 1 => \A c \in DOMAIN screen : screen[c] \in {0, 1}

\* two draws of a sprite crossing the right and bottom edges, on a display
\* with cells lit and unlit under it: each is as before
C34_Witness ==
    /\ drawing.draws = 2
    /\ drawing.reg_x = 60
    /\ drawing.reg_y = 30
    /\ drawing.sprite = <<180, 1, 128>>
    /\ ReadScreen(drawing.before, 30, 62) = 0
    /\ ReadScreen(drawing.before, 30, 63) = 1
    /\ ScreenAt(30, 62) = 0
    /\ ScreenAt(30, 63) = 1
    /\ <<30, 62>> \in DOMAIN screen

=============================================================================
